---- MODULE Spec2Model ----
(***************************************************************************)
(* Captain Focus: the chat widget's conversation controller                *)
(* (src/src/components/ChatInterface.tsx, src/src/App.tsx) and its API     *)
(* client (src/src/services/omnidimensionApi.ts).                          *)
(*                                                                         *)
(* Strings are TLA+ strings, that is sequences of characters: Len, \o and  *)
(* SubSeq compute includes(), trim(), RegExp tests and template literals.  *)
(* An emoji of the source is written as an ASCII short code (":zap:").     *)
(***************************************************************************)
EXTENDS Integers, Sequences, FiniteSets, TLC

VARIABLES
    messages,          \* useState<Message[]>                  ChatInterface.tsx:25
    inputText,         \* useState('')                         ChatInterface.tsx:34
    isTyping,          \* useState(false)                      ChatInterface.tsx:35
    isListening,       \* useState(false)                      ChatInterface.tsx:36
    isSpeaking,        \* useState(false)                      ChatInterface.tsx:37
    apiError,          \* useState<string | null>(null)        ChatInterface.tsx:40
    connectionStatus,  \* 'connecting' | 'connected' | 'error' ChatInterface.tsx:41
    isVoiceActive,     \* useState(false) of App               App.tsx:6
    mounted,           \* the React tree is mounted (FALSE once an effect has thrown)
    recognition,       \* the browser's SpeechRecognition object and its session
    synthesis,         \* the browser's speechSynthesis: utterance playing, callbacks due
    health,            \* the mount-time checkHealth() call: pending, or its outcome
    now,               \* Date.now()
    environment,       \* window.location and import.meta.env at construction
    backendUrl,        \* OmnidimensionAPI.backendUrl          omnidimensionApi.ts:26
    pending,           \* the fetch() calls of sendMessage that have not settled
    nextReq,           \* the number of sendMessage calls made so far
    lastCall,          \* the last sendMessage call that settled: request, outcome, result
    spoken,            \* the arguments of the speakText calls, in order
    moodResult,        \* the last direct detectMood call: argument and result
    voiceSettings,     \* useState<VoiceSettings>              ChatInterface.tsx:42
    availableVoices,   \* useState<SpeechSynthesisVoice[]>     ChatInterface.tsx:39
    localStorage,      \* the item 'captainFocusVoiceSettings' of localStorage
    browserVoices,     \* what speechSynthesis.getVoices() returns
    effectsDue         \* the first render is committed and its effects have not run

vars ==
    << messages, inputText, isTyping, isListening, isSpeaking, apiError,
       connectionStatus, isVoiceActive, mounted, recognition, synthesis, health,
       now, environment, backendUrl, pending, nextReq, lastCall, spoken,
       moodResult, voiceSettings, availableVoices, localStorage, browserVoices,
       effectsDue >>

\* the conversation, the connection and voice input and output
widgetVars ==
    << messages, inputText, isTyping, isListening, isSpeaking, apiError,
       connectionStatus, isVoiceActive, mounted, recognition, synthesis, health,
       now, environment, backendUrl, pending, nextReq, lastCall, spoken,
       moodResult >>

\* the voice settings dialog and what it rests on
settingsVars ==
    << voiceSettings, availableVoices, localStorage, browserVoices, effectsDue >>

-----------------------------------------------------------------------------
(* Bounds of the model *)

\* sendMessage calls per behaviour
MaxSends == 2

\* characters typed into the input box when the text is built piece by piece
MaxTextLen == 16

-----------------------------------------------------------------------------
(* Strings *)

UpperLetters == "ABCDEFGHIJKLMNOPQRSTUVWXYZ"

LowerLetters == "abcdefghijklmnopqrstuvwxyz"

CharAt(text, i) == SubSeq(text, i, i)

\* RegExp /i canonicalisation of one character: ASCII letters fold to upper case
Canonicalize(ch) ==
    IF \E i \in 1..26 : CharAt(LowerLetters, i) = ch
    THEN CharAt(UpperLetters, CHOOSE i \in 1..26 : CharAt(LowerLetters, i) = ch)
    ELSE ch

\* String.prototype.includes: a case-sensitive substring test
Includes(text, sub) ==
    \E i \in 1..(Len(text) - Len(sub) + 1) :
        SubSeq(text, i, i + Len(sub) - 1) = sub

\* the characters String.prototype.trim removes, among those the model types
WhiteSpace == {" ", "\n", "\t"}

RECURSIVE TrimStart(_)
TrimStart(text) ==
    IF Len(text) > 0 /\ CharAt(text, 1) \in WhiteSpace
    THEN TrimStart(SubSeq(text, 2, Len(text)))
    ELSE text

RECURSIVE TrimEnd(_)
TrimEnd(text) ==
    IF Len(text) > 0 /\ CharAt(text, Len(text)) \in WhiteSpace
    THEN TrimEnd(SubSeq(text, 1, Len(text) - 1))
    ELSE text

\* String.prototype.trim
Trim(text) == TrimEnd(TrimStart(text))

\* Number to decimal string, as a template literal renders ${response.status}
RECURSIVE NumberToString(_)
NumberToString(n) ==
    IF n < 10 THEN CharAt("0123456789", n + 1)
    ELSE NumberToString(n \div 10) \o CharAt("0123456789", (n % 10) + 1)

-----------------------------------------------------------------------------
(* Mood detection *)

\* /tired|exhausted|sleepy|bored|overwhelmed/i
TiredPattern == << "tired", "exhausted", "sleepy", "bored", "overwhelmed" >>

\* /confused|don't understand|help|stuck|hard|difficult/i
ConfusedPattern ==
    << "confused", "don't understand", "help", "stuck", "hard", "difficult" >>

\* /great|awesome|got it|understand|thanks|good/i
HappyPattern == << "great", "awesome", "got it", "understand", "thanks", "good" >>

\* RegExp.prototype.test for an alternation of literals under the i flag: some
\* alternative matches at some position, character by character, both sides
\* canonicalised
RegExpTest(alternatives, text) ==
    \E a \in 1..Len(alternatives) :
        \E i \in 1..(Len(text) - Len(alternatives[a]) + 1) :
            \A k \in 1..Len(alternatives[a]) :
                Canonicalize(CharAt(text, i + k - 1))
                    = Canonicalize(CharAt(alternatives[a], k))

\* detectMood with the happy test ranked above the confused test
detectMoodHappyFirst(text) ==
    LET tired == RegExpTest(TiredPattern, text)
        confused == RegExpTest(ConfusedPattern, text)
        happy == RegExpTest(HappyPattern, text)
    IN  IF tired THEN "tired"
        ELSE IF happy THEN "happy"
        ELSE IF confused THEN "confused"
        ELSE "neutral"

detectMood(text) ==
    LET tired == RegExpTest(TiredPattern, text)
        confused == RegExpTest(ConfusedPattern, text)
        happy == RegExpTest(HappyPattern, text)
    IN  IF tired THEN "tired"
        ELSE IF confused THEN "confused"
        ELSE IF happy THEN "happy"
        ELSE "neutral"

-----------------------------------------------------------------------------
(* JavaScript values: what JSON bodies parse to, and null / undefined *)

Undefined == [t |-> "undefined"]

Null == [t |-> "null"]

Str(s) == [t |-> "string", v |-> s]

Bool(b) == [t |-> "boolean", v |-> b]

Num(n) == [t |-> "number", v |-> n]

Obj(fields) == [t |-> "object", v |-> fields]

\* {}
EmptyObject == Obj([k \in {} |-> Undefined])

\* o.k for a value o that is neither null nor undefined
Get(o, k) == IF o.t = "object" /\ k \in DOMAIN o.v THEN o.v[k] ELSE Undefined

\* ToBoolean
Truthy(x) ==
    CASE x.t = "undefined" -> FALSE
      [] x.t = "null" -> FALSE
      [] x.t = "string" -> Len(x.v) > 0
      [] x.t = "boolean" -> x.v
      [] x.t = "number" -> x.v # 0
      [] x.t = "object" -> TRUE

\* thrown values: Error objects by constructor name, and values that are no Error
ErrorOf(name, message) == [isError |-> TRUE, name |-> name, message |-> message]

NonError(message) == [isError |-> FALSE, name |-> "string", message |-> message]

InstanceOfError(e) == e.isError

InstanceOfTypeError(e) == e.isError /\ e.name = "TypeError"

Throw(e) == [kind |-> "throw", error |-> e]

Return(v) == [kind |-> "return", value |-> v]

Reject(e) == [kind |-> "reject", error |-> e]

Resolve(v) == [kind |-> "resolve", value |-> v]

-----------------------------------------------------------------------------
(* HTTP: how a fetch() call settles *)

\* fetch rejects
FetchRejected(e) == [kind |-> "rejected", error |-> e]

\* fetch resolves with a Response; body is what Response.json() makes of it
FetchResponse(status, statusText, body) ==
    [kind |-> "response", status |-> status, statusText |-> statusText,
     body |-> body]

NotJson == [parses |-> FALSE]

Json(value) == [parses |-> TRUE, value |-> value]

\* Response.ok
ResponseOk(response) == response.status \in 200..299

\* Response.json(): the parsed body, or a rejection with a SyntaxError
ResponseJson(response) ==
    IF response.body.parses
    THEN Resolve(response.body.value)
    ELSE Reject(ErrorOf("SyntaxError", "Unexpected token < in JSON at position 0"))

-----------------------------------------------------------------------------
(* OmnidimensionAPI *)

\* sendMessage up to and including its fetch call: the request made, or a throw
sendMessageRequestWholeHistory(url, msgs) ==
    IF Len(msgs) = 0
    THEN Throw(ErrorOf("TypeError",
                       "Cannot read properties of undefined (reading 'role')"))
    ELSE [kind |-> "fetch", url |-> url \o "/api/chat", method |-> "POST",
          body |-> Obj([message |-> Str(msgs[1].content)])]

sendMessageRequest(url, msgs) ==
    IF Len(msgs) = 0
    THEN Throw(ErrorOf("TypeError",
                       "Cannot read properties of undefined (reading 'role')"))
    ELSE LET latestMessage == msgs[Len(msgs)]
         IN  IF latestMessage.role # "user"
             THEN Throw(ErrorOf("Error", "Latest message must be from user"))
             ELSE [kind |-> "fetch", url |-> url \o "/api/chat",
                   method |-> "POST",
                   body |-> Obj([message |-> Str(latestMessage.content)])]

\* errorData.error || `HTTP ${response.status}: ${response.statusText}`
errorMessageOf(response) ==
    LET parsed == ResponseJson(response)
        errorData == IF parsed.kind = "resolve" THEN parsed.value ELSE EmptyObject
    IN  IF Truthy(Get(errorData, "error"))
        THEN Get(errorData, "error").v
        ELSE "HTTP " \o NumberToString(response.status) \o ": "
                 \o response.statusText

\* the branch taken for a response that is not ok
notOkThrowNo404(response) ==
    IF response.status = 500
    THEN Throw(ErrorOf("Error", "Server error: " \o errorMessageOf(response)))
    ELSE Throw(ErrorOf("Error",
                       "Backend request failed: " \o errorMessageOf(response)))

notOkThrow(response) ==
    IF response.status = 404
    THEN Throw(ErrorOf("Error",
             "Backend service not found. Please check if the server is running."))
    ELSE IF response.status = 500
    THEN Throw(ErrorOf("Error", "Server error: " \o errorMessageOf(response)))
    ELSE Throw(ErrorOf("Error",
                       "Backend request failed: " \o errorMessageOf(response)))

\* the ok branch without the !data.response test
okReturnUnchecked(response) ==
    LET parsed == ResponseJson(response)
    IN  IF parsed.kind = "reject"
        THEN Throw(parsed.error)
        ELSE IF Get(parsed.value, "response").t # "string"
        THEN Return("")
        ELSE Return(Get(parsed.value, "response").v)

\* the branch taken for an ok response: data.response, or a throw
okReturn(response) ==
    LET parsed == ResponseJson(response)
    IN  IF parsed.kind = "reject"
        THEN Throw(parsed.error)
        ELSE IF ~Truthy(Get(parsed.value, "response"))
        THEN Throw(ErrorOf("Error",
                 "Invalid response from backend: missing response text"))
        ELSE Return(Get(parsed.value, "response").v)

\* the try block of sendMessage from the settlement of fetch on
sendMessageTry(outcome) ==
    IF outcome.kind = "rejected"
    THEN Throw(outcome.error)
    ELSE IF ~ResponseOk(outcome)
    THEN notOkThrow(outcome)
    ELSE okReturn(outcome)

\* the catch block of sendMessage: the value it throws in turn
sendMessageCatch(error) ==
    IF InstanceOfTypeError(error) /\ Includes(error.message, "fetch")
    THEN ErrorOf("Error",
      "Cannot connect to backend server. Please ensure the backend service is running.")
    ELSE error

\* how the promise of sendMessage settles, given how its fetch settled
sendMessageSettle(outcome) ==
    LET r == sendMessageTry(outcome)
    IN  IF r.kind = "throw"
        THEN Reject(sendMessageCatch(r.error))
        ELSE Resolve(r.value)

\* how the promise of checkHealth settles, given how its fetch settled
checkHealth(outcome) ==
    IF outcome.kind = "rejected"
    THEN Resolve(Null)
    ELSE IF ~ResponseOk(outcome)
    THEN Resolve(Null)
    ELSE LET parsed == ResponseJson(outcome)
         IN  IF parsed.kind = "reject" THEN Resolve(Null)
             ELSE Resolve(parsed.value)

\* getSystemPrompt
getSystemPrompt ==
    "You are Captain Focus, a friendly AI study companion. Help students learn with enthusiasm and encouragement!"

\* a constructor that prefers VITE_BACKEND_URL on every host
constructorUrlEnvFirst(env) ==
    IF Truthy(env.VITE_BACKEND_URL)
    THEN env.VITE_BACKEND_URL.v
    ELSE IF env.hasWindow /\ env.hostname \notin {"localhost", "127.0.0.1"}
    THEN env.protocol \o "//captain-focus-backend.onrender.com"
    ELSE "http://localhost:3001"

\* the constructor's choice of backendUrl
constructorUrl(env) ==
    IF env.hasWindow
    THEN IF env.hostname = "localhost" \/ env.hostname = "127.0.0.1"
         THEN "http://localhost:3001"
         ELSE IF Truthy(env.VITE_BACKEND_URL)
         THEN env.VITE_BACKEND_URL.v
         ELSE env.protocol \o "//captain-focus-backend.onrender.com"
    ELSE IF Truthy(env.VITE_BACKEND_URL)
         THEN env.VITE_BACKEND_URL.v
         ELSE "http://localhost:3001"

\* getBackendUrl
getBackendUrl == backendUrl

\* the request checkHealth makes
checkHealthRequest(url) ==
    [kind |-> "fetch", url |-> url \o "/api/health", method |-> "GET"]

-----------------------------------------------------------------------------
(* The environment: where the page runs and how the backend answers *)

Environments ==
    [hasWindow : BOOLEAN,
     hostname : {"localhost", "127.0.0.1", "captain-focus.example"},
     protocol : {"http:", "https:"},
     VITE_BACKEND_URL : {Undefined, Str(""), Str("https://api.example")}]

\* the widget runs in a browser page
WidgetEnvironments ==
    {env \in Environments :
        /\ env.hasWindow
        /\ env.hostname = "captain-focus.example"
        /\ env.protocol = "https:"
        /\ env.VITE_BACKEND_URL = Undefined}

\* fetch failing at the transport: the TypeError of Chromium, of Firefox and of
\* WebKit
TransportErrors ==
    {ErrorOf("TypeError", "Failed to fetch"),
     ErrorOf("TypeError", "NetworkError when attempting to fetch resource."),
     ErrorOf("TypeError", "Load failed")}

\* a replaced fetch (a polyfill, a test double) may reject with any value
ForeignRejections == {NonError("offline")}

StatusTexts(status) ==
    CASE status = 200 -> {"OK", ""}
      [] status = 404 -> {"Not Found", ""}
      [] status = 500 -> {"Internal Server Error", ""}
      [] status = 503 -> {"Service Unavailable", ""}

\* bodies of error replies: not JSON (a proxy's HTML page), or a JSON object
\* with or without an error string
ErrorBodies ==
    {NotJson, Json(EmptyObject), Json(Obj([error |-> Str("")])),
     Json(Obj([error |-> Str("Message is required")]))}

ReplyTexts == {"Great question! Let's break it down.", "ok"}

\* bodies of ok replies to POST /api/chat: not JSON, or an object in which the
\* response string is absent, empty or present
ChatBodies ==
    {NotJson, Json(EmptyObject),
     Json(Obj([response |-> Str(""), status |-> Str("success")]))}
    \cup {Json(Obj([response |-> Str(r), status |-> Str("success")])) :
            r \in ReplyTexts}

ChatOutcomes ==
    {FetchRejected(e) : e \in TransportErrors \cup ForeignRejections}
    \cup UNION {{FetchResponse(st, tx, b) : tx \in StatusTexts(st), b \in ErrorBodies} :
                  st \in {404, 500, 503}}
    \cup {FetchResponse(200, "OK", b) : b \in ChatBodies}

\* the outcomes the widget specification draws from: one per way sendMessage
\* settles
WidgetChatOutcomes ==
    {FetchRejected(ErrorOf("TypeError", "Failed to fetch")),
     FetchRejected(NonError("offline")),
     FetchResponse(200, "OK", Json(EmptyObject)),
     FetchResponse(200, "OK", Json(Obj([response |-> Str(""),
                                        status |-> Str("success")]))),
     FetchResponse(200, "OK",
         Json(Obj([response |-> Str("Great question! Let's break it down."),
                   status |-> Str("success")])))}

\* bodies of ok replies to GET /api/health: the declared BackendHealthResponse,
\* and the same with the fields checkConnection reads
HealthDeclared ==
    Obj([status |-> Str("OK"), service |-> Str("captain-focus-backend"),
         message |-> Str("Backend is running"), timestamp |-> Str("t"),
         environment |-> Obj([nodeEnv |-> Str("production"),
                              nodeVersion |-> Str("v20"), port |-> Num(3001)])])

HealthWithKey ==
    Obj([status |-> Str("OK"),
         environment |-> Obj([nodeEnv |-> Str("production"),
                              hasApiKey |-> Bool(TRUE)])])

HealthWithKeyAndApi ==
    Obj([status |-> Str("OK"),
         environment |-> Obj([nodeEnv |-> Str("production"),
                              hasApiKey |-> Bool(TRUE)]),
         omnidimensionApiHealth |-> Bool(TRUE)])

HealthOutcomes ==
    {FetchRejected(ErrorOf("TypeError", "Failed to fetch")),
     FetchResponse(503, "Service Unavailable", NotJson),
     FetchResponse(200, "OK", NotJson),
     FetchResponse(200, "OK", Json(HealthDeclared)),
     FetchResponse(200, "OK", Json(HealthWithKey)),
     FetchResponse(200, "OK", Json(HealthWithKeyAndApi))}

-----------------------------------------------------------------------------
(* More bounds *)

\* the value Date.now() has when the page loads (a stand-in for epoch ms)
StartTime == 1000

\* clock ticks per behaviour
MaxTicks == 1

\* clicks on Test Voice per behaviour
MaxTestVoice == 1

-----------------------------------------------------------------------------
(* Voice settings and their item in localStorage.  The numbers of the       *)
(* settings are kept in tenths: the sliders step by 0.1 and the voice index *)
(* is a whole number.                                                       *)

\* String.prototype.toLowerCase
RECURSIVE ToLowerCase(_)
ToLowerCase(text) ==
    IF Len(text) = 0 THEN ""
    ELSE LET ch == CharAt(text, 1)
             lower == IF \E i \in 1..26 : CharAt(UpperLetters, i) = ch
                      THEN CharAt(LowerLetters,
                                  CHOOSE i \in 1..26 : CharAt(UpperLetters, i) = ch)
                      ELSE ch
         IN  lower \o ToLowerCase(SubSeq(text, 2, Len(text)))

\* String.prototype.indexOf, counting from 1, with 0 for no occurrence
IndexOf(text, ch) ==
    IF \E i \in 1..Len(text) : CharAt(text, i) = ch
    THEN CHOOSE i \in 1..Len(text) :
             /\ CharAt(text, i) = ch
             /\ \A j \in 1..(i - 1) : CharAt(text, j) # ch
    ELSE 0

\* the value of a string of decimal digits
RECURSIVE DigitsToNumber(_)
DigitsToNumber(text) ==
    IF Len(text) = 0 THEN 0
    ELSE 10 * DigitsToNumber(SubSeq(text, 1, Len(text) - 1))
         + (IndexOf("0123456789", CharAt(text, Len(text))) - 1)

\* parseInt, parseFloat and the number syntax of JSON.parse, for digits with
\* at most one decimal: the number in tenths
StringToTenths(text) ==
    LET point == IndexOf(text, ".")
    IN  IF point = 0 THEN 10 * DigitsToNumber(text)
        ELSE 10 * DigitsToNumber(SubSeq(text, 1, point - 1))
             + DigitsToNumber(SubSeq(text, point + 1, point + 1))

\* a number in tenths as JSON.stringify and an input's value print it
TenthsToString(t) ==
    IF t % 10 = 0 THEN NumberToString(t \div 10)
    ELSE NumberToString(t \div 10) \o "." \o NumberToString(t % 10)

\* JSON.stringify that writes every number as a whole number
JSONstringifyWhole(vs) ==
    "{\"selectedVoice\":" \o NumberToString(vs.selectedVoice \div 10)
        \o ",\"pitch\":" \o NumberToString(vs.pitch \div 10)
        \o ",\"rate\":" \o NumberToString(vs.rate \div 10) \o "}"

\* JSON.stringify(voiceSettings): the keys in the order every settings object
\* of the component has them
JSONstringify(vs) ==
    "{\"selectedVoice\":" \o TenthsToString(vs.selectedVoice)
        \o ",\"pitch\":" \o TenthsToString(vs.pitch)
        \o ",\"rate\":" \o TenthsToString(vs.rate) \o "}"

RECURSIVE Split(_, _)
Split(text, separator) ==
    LET i == IndexOf(text, separator)
    IN  IF i = 0 THEN << text >>
        ELSE << SubSeq(text, 1, i - 1) >>
                 \o Split(SubSeq(text, i + 1, Len(text)), separator)

\* JSON.parse of an object whose members are numbers
JSONparse(text) ==
    LET members == Split(SubSeq(text, 2, Len(text) - 1), ",")
        key(m) == SubSeq(m, 2, IndexOf(m, ":") - 2)
        value(m) == StringToTenths(SubSeq(m, IndexOf(m, ":") + 1, Len(m)))
    IN  [k \in {key(members[i]) : i \in 1..Len(members)} |->
            value(members[CHOOSE i \in 1..Len(members) : key(members[i]) = k])]

\* { selectedVoice: 0, pitch: 1.1, rate: 0.9 }
DefaultVoiceSettings == [selectedVoice |-> 0, pitch |-> 11, rate |-> 9]

\* the useState initializer of voiceSettings
initialVoiceSettings(saved) ==
    IF Truthy(saved) THEN JSONparse(saved.v) ELSE DefaultVoiceSettings

\* voices.findIndex(...), counting from 0, with -1 for none
findFemaleVoice(voices) ==
    LET matches(name) ==
            \/ Includes(ToLowerCase(name), "female")
            \/ Includes(ToLowerCase(name), "woman")
            \/ Includes(ToLowerCase(name), "zira")
            \/ Includes(ToLowerCase(name), "samantha")
    IN  IF \E i \in 1..Len(voices) : matches(voices[i])
        THEN (CHOOSE i \in 1..Len(voices) :
                  /\ matches(voices[i])
                  /\ \A j \in 1..(i - 1) : ~matches(voices[j])) - 1
        ELSE -1

\* loadVoices: the settings it leaves, a selectedVoice outside the voice list
\* being replaced
loadVoices(vs, voices) ==
    IF Len(voices) > 0
       /\ (vs.selectedVoice >= 10 * Len(voices) \/ vs.selectedVoice < 0)
    THEN LET femaleVoice == findFemaleVoice(voices)
         IN  [vs EXCEPT !.selectedVoice =
                            IF femaleVoice >= 0 THEN 10 * femaleVoice ELSE 0]
    ELSE vs

\* the effects after a render with new settings: the item is written, and
\* loadVoices runs again when selectedVoice changed
SettingsEffects(vs, selectedVoiceChanged) ==
    LET final == IF selectedVoiceChanged THEN loadVoices(vs, browserVoices)
                 ELSE vs
    IN  /\ voiceSettings' = final
        /\ localStorage' = Str(JSONstringify(final))
        /\ availableVoices' = IF selectedVoiceChanged THEN browserVoices
                              ELSE availableVoices

-----------------------------------------------------------------------------
(* The widget: initial state *)

GreetingText ==
    ":video_game: Greetings, brave scholar! I'm Captain Focus, your AI study companion! I'm here to turn your learning journey into an epic quest. What subject shall we conquer today? :crossed_swords::sparkles:"

FallbackResponse ==
    ":robot: I'm having trouble connecting to my AI brain right now, but I'm still here to help! This might be due to API configuration issues. Please check the backend logs and ensure your Omnidimension API key is properly set. :zap:"

TestVoiceText ==
    "Hello! This is how Captain Focus sounds with your current voice settings. Ready for an epic learning adventure?"

NoCall == [id |-> -1]

NoMood == [mood |-> "none"]

InitWidget(envs, recognitions, synthesisAvailable) ==
    /\ messages = << [id |-> "1", text |-> GreetingText, sender |-> "captain",
                      mood |-> "happy", timestamp |-> StartTime] >>
    /\ inputText = ""
    /\ isTyping = FALSE
    /\ isListening = FALSE
    /\ isSpeaking = FALSE
    /\ apiError = Null
    /\ connectionStatus = "connecting"
    /\ isVoiceActive = FALSE
    /\ mounted = TRUE
    /\ recognition \in recognitions
    /\ synthesis \in [available : synthesisAvailable, speaking : {FALSE},
                       callbacks : {0}]
    /\ health = [state |-> "pending"]
    /\ now = StartTime
    /\ environment \in envs
    /\ backendUrl = constructorUrl(environment)
    /\ pending = {}
    /\ nextReq = 0
    /\ lastCall = NoCall
    /\ spoken = << >>
    /\ moodResult = NoMood

\* a first visit in a browser that has not loaded its voices, the mount
\* effects having run
InitWith(envs, recognitions, synthesisAvailable) ==
    /\ InitWidget(envs, recognitions, synthesisAvailable)
    /\ voiceSettings = DefaultVoiceSettings
    /\ availableVoices = << >>
    /\ localStorage = Str(JSONstringify(DefaultVoiceSettings))
    /\ browserVoices = << >>
    /\ effectsDue = FALSE

\* recognitionRef.current stays null where the browser has no SpeechRecognition
\* ("none"); speakText does nothing where it has no speechSynthesis
Init == InitWith(WidgetEnvironments, {"idle"}, BOOLEAN)

-----------------------------------------------------------------------------
(* Speech synthesis *)

\* speechSynthesis.cancel(): the utterance being spoken is dropped, and its end
\* or error event is delivered later
speechSynthesisCancel(syn) ==
    IF syn.speaking
    THEN [syn EXCEPT !.speaking = FALSE, !.callbacks = @ + 1]
    ELSE syn

\* speakText(text): what it does to speechSynthesis
speakTextSynthesis(syn) ==
    IF syn.available
    THEN [speechSynthesisCancel(syn) EXCEPT !.speaking = TRUE]
    ELSE syn

\* speakText(text): what it does to isSpeaking
speakTextIsSpeaking(syn, current) ==
    IF syn.available THEN TRUE ELSE current

-----------------------------------------------------------------------------
(* Speech recognition *)

\* the voice-activation effect, run after a render in which isVoiceActive or
\* isListening changed: recognition.start() throws InvalidStateError when a
\* session has been started and has not ended; an error thrown by an effect
\* unmounts the React tree
VoiceEffect(voiceActive, listening, rec) ==
    IF voiceActive /\ rec # "none" /\ ~listening
    THEN IF rec = "idle"
         THEN [recognition |-> "starting", threw |-> FALSE]
         ELSE [recognition |-> rec, threw |-> TRUE]
    ELSE IF ~voiceActive /\ rec # "none" /\ listening
    THEN [recognition |-> IF rec \in {"starting", "running"} THEN "stopping" ELSE rec,
          threw |-> FALSE]
    ELSE [recognition |-> rec, threw |-> FALSE]

\* the state setters of a handler, followed by the effect when its dependencies
\* changed
SetVoiceState(voiceActive, listening, rec) ==
    LET changed == voiceActive # isVoiceActive \/ listening # isListening
        eff == IF changed THEN VoiceEffect(voiceActive, listening, rec)
               ELSE [recognition |-> rec, threw |-> FALSE]
    IN  /\ isVoiceActive' = voiceActive
        /\ isListening' = listening
        /\ recognition' = eff.recognition
        /\ mounted' = ~eff.threw

-----------------------------------------------------------------------------
(* The widget: handlers *)

\* what the user types, pastes or dictates
WidgetInputs == {"   ", " so TIRED, thanks ", "I don't understand"}

\* textarea onChange (the textarea is disabled while listening)
ChangeInput(text) ==
    /\ mounted
    /\ ~isListening
    /\ text # inputText
    /\ inputText' = text
    /\ UNCHANGED << messages, isTyping, isListening, isSpeaking, apiError,
                    connectionStatus, isVoiceActive, mounted, recognition,
                    synthesis, health, now, environment, backendUrl, pending,
                    nextReq, lastCall, spoken, moodResult,
                    settingsVars >>

\* messages.map(...) of handleSendMessage
conversationHistory(msgs) ==
    [i \in 1..Len(msgs) |->
        [role |-> IF msgs[i].sender = "user" THEN "user" ELSE "assistant",
         content |-> msgs[i].text]]

\* handleSendMessage storing and sending the trimmed input
handleSendMessageTrimmed ==
    IF Len(Trim(inputText)) = 0
    THEN UNCHANGED vars
    ELSE LET userMessage == [id |-> NumberToString(now), text |-> Trim(inputText),
                             sender |-> "user", timestamp |-> now]
             currentInput == Trim(inputText)
             apiMessages ==
                 << [role |-> "system", content |-> getSystemPrompt] >>
                 \o conversationHistory(messages)
                 \o << [role |-> "user", content |-> currentInput] >>
         IN  /\ nextReq < MaxSends
             /\ messages' = Append(messages, userMessage)
             /\ inputText' = ""
             /\ isTyping' = TRUE
             /\ apiError' = Null
             /\ pending' = pending \cup
                    {[id |-> nextReq, messages |-> apiMessages,
                      request |-> sendMessageRequest(backendUrl, apiMessages),
                      input |-> currentInput]}
             /\ nextReq' = nextReq + 1
             /\ UNCHANGED << isListening, isSpeaking, connectionStatus,
                             isVoiceActive, mounted, recognition, synthesis,
                             health, now, environment, backendUrl, lastCall,
                             spoken, moodResult,
                             settingsVars >>

\* handleSendMessage up to its await: a blank input returns at once
handleSendMessage ==
    IF Len(Trim(inputText)) = 0
    THEN UNCHANGED vars
    ELSE LET userMessage == [id |-> NumberToString(now), text |-> inputText,
                             sender |-> "user", timestamp |-> now]
             currentInput == inputText
             apiMessages ==
                 << [role |-> "system", content |-> getSystemPrompt] >>
                 \o conversationHistory(messages)
                 \o << [role |-> "user", content |-> currentInput] >>
         IN  /\ nextReq < MaxSends
             /\ messages' = Append(messages, userMessage)
             /\ inputText' = ""
             /\ isTyping' = TRUE
             /\ apiError' = Null
             /\ pending' = pending \cup
                    {[id |-> nextReq, messages |-> apiMessages,
                      request |-> sendMessageRequest(backendUrl, apiMessages),
                      input |-> currentInput]}
             /\ nextReq' = nextReq + 1
             /\ UNCHANGED << isListening, isSpeaking, connectionStatus,
                             isVoiceActive, mounted, recognition, synthesis,
                             health, now, environment, backendUrl, lastCall,
                             spoken, moodResult,
                             settingsVars >>

\* the Send button: disabled={!inputText.trim() || isListening || isTyping}
ClickSend ==
    /\ mounted
    /\ ~(Len(Trim(inputText)) = 0 \/ isListening \/ isTyping)
    /\ handleSendMessage

\* handleKeyPress: Enter without Shift in the textarea
PressEnter ==
    /\ mounted
    /\ ~isListening
    /\ handleSendMessage

\* how a sendMessage call settles: its own throw before fetch, or by the outcome
\* of its fetch
CallResult(call, outcome) ==
    IF call.request.kind = "throw"
    THEN Reject(sendMessageCatch(call.request.error))
    ELSE sendMessageSettle(outcome)

\* the mood given to a reply, computed from the reply instead of the input
replyMoodOfReply(currentInput, responseText) == detectMood(responseText)

\* const mood = detectMood(currentInput)
replyMood(currentInput, responseText) == detectMood(currentInput)

\* the success branch appending to the list as it was when the send began:
\* setMessages([...messages, captainMessage])
handleResolvedStaleList(call, responseText) ==
    /\ messages' = Append(SubSeq(messages, 1, Len(call.messages) - 2),
           [id |-> NumberToString(now + 1), text |-> responseText,
            sender |-> "captain", mood |-> replyMood(call.input, responseText),
            timestamp |-> now])
    /\ isTyping' = FALSE
    /\ isSpeaking' = speakTextIsSpeaking(synthesis, isSpeaking)
    /\ synthesis' = speakTextSynthesis(synthesis)
    /\ spoken' = Append(spoken, responseText)
    /\ UNCHANGED apiError

\* handleSendMessage after its await, the call having resolved
handleResolved(call, responseText) ==
    /\ messages' = Append(messages,
           [id |-> NumberToString(now + 1), text |-> responseText,
            sender |-> "captain", mood |-> replyMood(call.input, responseText),
            timestamp |-> now])
    /\ isTyping' = FALSE
    /\ isSpeaking' = speakTextIsSpeaking(synthesis, isSpeaking)
    /\ synthesis' = speakTextSynthesis(synthesis)
    /\ spoken' = Append(spoken, responseText)
    /\ UNCHANGED apiError

\* the catch branch showing the raw error text in the chat
handleRejectedRawError(call, error) ==
    /\ apiError' = Str(IF InstanceOfError(error) THEN error.message
                       ELSE "Failed to get response from AI")
    /\ messages' = Append(messages,
           [id |-> NumberToString(now + 1), text |-> error.message,
            sender |-> "captain", mood |-> "neutral", timestamp |-> now])
    /\ isTyping' = FALSE
    /\ isSpeaking' = speakTextIsSpeaking(synthesis, isSpeaking)
    /\ synthesis' = speakTextSynthesis(synthesis)
    /\ spoken' = Append(spoken, error.message)

\* handleSendMessage after its await, the call having rejected (the catch branch)
handleRejected(call, error) ==
    /\ apiError' = Str(IF InstanceOfError(error) THEN error.message
                       ELSE "Failed to get response from AI")
    /\ messages' = Append(messages,
           [id |-> NumberToString(now + 1), text |-> FallbackResponse,
            sender |-> "captain", mood |-> "neutral", timestamp |-> now])
    /\ isTyping' = FALSE
    /\ isSpeaking' = speakTextIsSpeaking(synthesis, isSpeaking)
    /\ synthesis' = speakTextSynthesis(synthesis)
    /\ spoken' = Append(spoken, FallbackResponse)

\* a pending sendMessage call settles and handleSendMessage resumes
BackendSettle(call, outcome) ==
    /\ mounted
    /\ call \in pending
    /\ LET result == CallResult(call, outcome)
       IN  /\ IF result.kind = "resolve"
              THEN handleResolved(call, result.value)
              ELSE handleRejected(call, result.error)
           /\ lastCall' = [id |-> call.id, messages |-> call.messages,
                           request |-> call.request, input |-> call.input,
                           outcome |-> outcome, result |-> result]
    /\ pending' = pending \ {call}
    /\ UNCHANGED << inputText, isListening, connectionStatus, isVoiceActive,
                    mounted, recognition, health, now, environment, backendUrl,
                    nextReq, moodResult,
                    settingsVars >>

\* checkConnection that reports every settled health check as connected
checkConnectionAlwaysConnected(settled) ==
    /\ connectionStatus' = "connected"
    /\ UNCHANGED apiError

\* checkConnection after its await
checkConnection(settled) ==
    IF settled.kind = "reject"
    THEN /\ connectionStatus' = "error"
         /\ apiError' = Str("Cannot connect to backend server. Please ensure the backend service is running.")
    ELSE LET h == settled.value
         IN  IF Truthy(h)
             THEN /\ connectionStatus' = "connected"
                  /\ IF Truthy(Get(h, "environment"))
                        /\ ~Truthy(Get(Get(h, "environment"), "hasApiKey"))
                     THEN apiError' = Str("Omnidimension API key not configured. Please set VITE_OMNIDIMENSION_API_KEY environment variable in your backend .env file.")
                     ELSE IF ~Truthy(Get(h, "omnidimensionApiHealth"))
                     THEN apiError' = Str("Omnidimension API is not responding. Please check your API key and network connection.")
                     ELSE UNCHANGED apiError
             ELSE /\ connectionStatus' = "error"
                  /\ apiError' = Str("Backend health check failed. Please ensure the backend service is running and accessible.")

\* the health check issued by the mount effect settles
HealthSettle(outcome) ==
    /\ mounted
    /\ health.state = "pending"
    /\ health' = [state |-> "settled", outcome |-> outcome,
                  result |-> checkHealth(outcome)]
    /\ checkConnection(checkHealth(outcome))
    /\ UNCHANGED << messages, inputText, isTyping, isListening, isSpeaking,
                    isVoiceActive, mounted, recognition, synthesis, now,
                    environment, backendUrl, pending, nextReq, lastCall, spoken,
                    moodResult,
                    settingsVars >>

\* the X of the error banner: onClick={() => setApiError(null)}
DismissError ==
    /\ mounted
    /\ Truthy(apiError)
    /\ apiError' = Null
    /\ UNCHANGED << messages, inputText, isTyping, isListening, isSpeaking,
                    connectionStatus, isVoiceActive, mounted, recognition,
                    synthesis, health, now, environment, backendUrl, pending,
                    nextReq, lastCall, spoken, moodResult,
                    settingsVars >>

\* toggleVoice, and the voice-activation effect after it
toggleVoice ==
    /\ mounted
    /\ IF isSpeaking
       THEN /\ synthesis' = speechSynthesisCancel(synthesis)
            /\ isSpeaking' = FALSE
       ELSE UNCHANGED << synthesis, isSpeaking >>
    /\ LET eff == VoiceEffect(~isVoiceActive, isListening, recognition)
       IN  /\ isVoiceActive' = ~isVoiceActive
           /\ recognition' = eff.recognition
           /\ mounted' = ~eff.threw
    /\ UNCHANGED << messages, inputText, isTyping, isListening, apiError,
                    connectionStatus, health, now, environment, backendUrl,
                    pending, nextReq, lastCall, spoken, moodResult,
                    settingsVars >>

\* recognition.onstart
RecognitionStart ==
    /\ mounted
    /\ recognition = "starting"
    /\ SetVoiceState(isVoiceActive, TRUE, "running")
    /\ UNCHANGED << messages, inputText, isTyping, isSpeaking, apiError,
                    connectionStatus, synthesis, health, now, environment,
                    backendUrl, pending, nextReq, lastCall, spoken, moodResult,
                    settingsVars >>

\* recognition.onresult: the transcript goes to the input box
RecognitionResult(transcript) ==
    /\ mounted
    /\ recognition \in {"running", "stopping"}
    /\ inputText' = transcript
    /\ SetVoiceState(FALSE, FALSE, "ending")
    /\ UNCHANGED << messages, isTyping, isSpeaking, apiError, connectionStatus,
                    synthesis, health, now, environment, backendUrl, pending,
                    nextReq, lastCall, spoken, moodResult,
                    settingsVars >>

\* recognition.onerror (an end event follows)
RecognitionError ==
    /\ mounted
    /\ recognition \in {"starting", "running", "stopping"}
    /\ SetVoiceState(FALSE, FALSE, "ending")
    /\ UNCHANGED << messages, inputText, isTyping, isSpeaking, apiError,
                    connectionStatus, synthesis, health, now, environment,
                    backendUrl, pending, nextReq, lastCall, spoken, moodResult,
                    settingsVars >>

\* recognition.onend: the session is over
RecognitionEnd ==
    /\ mounted
    /\ recognition \in {"running", "stopping", "ending"}
    /\ SetVoiceState(FALSE, FALSE, "idle")
    /\ UNCHANGED << messages, inputText, isTyping, isSpeaking, apiError,
                    connectionStatus, synthesis, health, now, environment,
                    backendUrl, pending, nextReq, lastCall, spoken, moodResult,
                    settingsVars >>

\* utterance.onend / utterance.onerror of the utterance being spoken
UtteranceEnd ==
    /\ mounted
    /\ synthesis.speaking
    /\ synthesis' = [synthesis EXCEPT !.speaking = FALSE]
    /\ isSpeaking' = FALSE
    /\ UNCHANGED << messages, inputText, isTyping, isListening, apiError,
                    connectionStatus, isVoiceActive, mounted, recognition,
                    health, now, environment, backendUrl, pending, nextReq,
                    lastCall, spoken, moodResult,
                    settingsVars >>

\* utterance.onend / utterance.onerror of an utterance that cancel() dropped
CancelledUtteranceCallback ==
    /\ mounted
    /\ synthesis.callbacks > 0
    /\ synthesis' = [synthesis EXCEPT !.callbacks = @ - 1]
    /\ isSpeaking' = FALSE
    /\ UNCHANGED << messages, inputText, isTyping, isListening, apiError,
                    connectionStatus, isVoiceActive, mounted, recognition,
                    health, now, environment, backendUrl, pending, nextReq,
                    lastCall, spoken, moodResult,
                    settingsVars >>

\* the Test Voice button of the settings dialog: disabled={isSpeaking}
testVoice ==
    /\ mounted
    /\ ~isSpeaking
    /\ Cardinality({i \in 1..Len(spoken) : spoken[i] = TestVoiceText}) < MaxTestVoice
    /\ isSpeaking' = speakTextIsSpeaking(synthesis, isSpeaking)
    /\ synthesis' = speakTextSynthesis(synthesis)
    /\ spoken' = Append(spoken, TestVoiceText)
    /\ UNCHANGED << messages, inputText, isTyping, isListening, apiError,
                    connectionStatus, isVoiceActive, mounted, recognition,
                    health, now, environment, backendUrl, pending, nextReq,
                    lastCall, moodResult,
                    settingsVars >>

\* time passes
Tick ==
    /\ mounted
    /\ now < StartTime + MaxTicks
    /\ now' = now + 1
    /\ UNCHANGED << messages, inputText, isTyping, isListening, isSpeaking,
                    apiError, connectionStatus, isVoiceActive, mounted,
                    recognition, synthesis, health, environment, backendUrl,
                    pending, nextReq, lastCall, spoken, moodResult,
                    settingsVars >>

\* the voice <select> of the settings dialog: one option per available voice
SelectVoice(index) ==
    /\ mounted
    /\ ~effectsDue
    /\ index \in 0..(Len(availableVoices) - 1)
    /\ LET selectedVoice == StringToTenths(NumberToString(index))
       IN  SettingsEffects([voiceSettings EXCEPT !.selectedVoice = selectedVoice],
                           selectedVoice # voiceSettings.selectedVoice)
    /\ UNCHANGED << widgetVars, browserVoices, effectsDue >>

\* the pitch slider
ChangePitch(value) ==
    /\ mounted
    /\ ~effectsDue
    /\ SettingsEffects([voiceSettings EXCEPT !.pitch = StringToTenths(value)], FALSE)
    /\ UNCHANGED << widgetVars, browserVoices, effectsDue >>

\* the rate slider
ChangeRate(value) ==
    /\ mounted
    /\ ~effectsDue
    /\ SettingsEffects([voiceSettings EXCEPT !.rate = StringToTenths(value)], FALSE)
    /\ UNCHANGED << widgetVars, browserVoices, effectsDue >>

\* the Reset to Defaults button
ResetToDefaults ==
    /\ mounted
    /\ ~effectsDue
    /\ SettingsEffects(DefaultVoiceSettings,
                       DefaultVoiceSettings.selectedVoice # voiceSettings.selectedVoice)
    /\ UNCHANGED << widgetVars, browserVoices, effectsDue >>

\* the browser's voiceschanged event: loadVoices as the listener
VoicesChanged(voices) ==
    /\ mounted
    /\ ~effectsDue
    /\ voices # browserVoices
    /\ browserVoices' = voices
    /\ availableVoices' = voices
    /\ voiceSettings' = loadVoices(voiceSettings, voices)
    /\ IF voiceSettings' # voiceSettings
       THEN localStorage' = Str(JSONstringify(voiceSettings'))
       ELSE UNCHANGED localStorage
    /\ UNCHANGED << widgetVars, effectsDue >>

\* the page is loaded again, in a browser session that has the voices given:
\* the component is initialised anew (the rest of the widget being in its
\* initial state already) and its first render is committed
Reload(voices) ==
    /\ ~effectsDue
    /\ InitWidget({environment}, {recognition}, {synthesis.available})
    /\ voiceSettings' = initialVoiceSettings(localStorage)
    /\ availableVoices' = << >>
    /\ browserVoices' = voices
    /\ effectsDue' = TRUE
    /\ UNCHANGED << widgetVars, localStorage >>

\* the effects of the first render: the item is written and loadVoices runs
MountEffects ==
    /\ effectsDue
    /\ SettingsEffects(voiceSettings, TRUE)
    /\ effectsDue' = FALSE
    /\ UNCHANGED << widgetVars, browserVoices >>

-----------------------------------------------------------------------------
(* Specifications *)

\* The conversation: typing, sending, replies, the banner
Next ==
    \/ \E text \in WidgetInputs \cup {""} : ChangeInput(text)
    \/ ClickSend
    \/ PressEnter
    \/ \E call \in pending, outcome \in WidgetChatOutcomes :
           BackendSettle(call, outcome)
    \/ DismissError

Spec == Init /\ [][Next]_vars

\* A small conversation, for the specifications about what goes on beside it
SmallInputs == {"help me"}

SmallChatOutcomes ==
    {FetchRejected(ErrorOf("TypeError", "Failed to fetch")),
     FetchResponse(200, "OK",
         Json(Obj([response |-> Str("Great question! Let's break it down."),
                   status |-> Str("success")])))}

BackendSettles ==
    \E call \in pending, outcome \in SmallChatOutcomes :
        BackendSettle(call, outcome)

\* The connection: the mount-time health check, and sends made before and
\* after it settles, as time passes
NextHealth ==
    \/ \E outcome \in HealthOutcomes : HealthSettle(outcome)
    \/ DismissError
    \/ Tick
    \/ \E text \in SmallInputs : ChangeInput(text)
    \/ ClickSend
    \/ PressEnter
    \/ BackendSettles

HealthSpec == Init /\ [][NextHealth]_vars

\* Voice: the microphone button, recognition and synthesis events, Test Voice,
\* and sends whose replies are spoken
InitVoice == InitWith(WidgetEnvironments, {"none", "idle"}, BOOLEAN)

NextVoice ==
    \/ \E text \in SmallInputs : ChangeInput(text)
    \/ ClickSend
    \/ PressEnter
    \/ BackendSettles
    \/ toggleVoice
    \/ RecognitionStart
    \/ \E transcript \in SmallInputs : RecognitionResult(transcript)
    \/ RecognitionError
    \/ RecognitionEnd
    \/ UtteranceEnd
    \/ CancelledUtteranceCallback
    \/ testVoice

VoiceSpec == InitVoice /\ [][NextVoice]_vars

\* The same under the fairness the platform gives: a fetch settles, a started
\* recognition session runs to its end event, an utterance is spoken to its end
LiveSpec ==
    /\ InitVoice
    /\ [][NextVoice]_vars
    /\ WF_vars(BackendSettles)
    /\ WF_vars(RecognitionStart \/ RecognitionEnd)
    /\ WF_vars(UtteranceEnd)
    /\ WF_vars(CancelledUtteranceCallback)

\* The API client called directly
ApiEnvironments ==
    {env \in Environments :
        /\ env.protocol = "https:"
        /\ env.VITE_BACKEND_URL = Undefined
        /\ env.hostname \in {"localhost", "captain-focus.example"}}

ApiMessageLists ==
    { << >>,
      << [role |-> "user", content |-> "hello"] >>,
      << [role |-> "system", content |-> getSystemPrompt],
         [role |-> "user", content |-> "hello"] >>,
      << [role |-> "system", content |-> getSystemPrompt],
         [role |-> "user", content |-> "first"],
         [role |-> "assistant", content |-> "reply"],
         [role |-> "user", content |-> "second"] >>,
      << [role |-> "system", content |-> getSystemPrompt],
         [role |-> "user", content |-> "first"],
         [role |-> "assistant", content |-> "reply"] >>,
      << [role |-> "user", content |-> "hello"],
         [role |-> "system", content |-> getSystemPrompt] >> }

NoFetch == [kind |-> "none"]

InitApi == InitWith(ApiEnvironments, {"idle"}, {TRUE})

\* a caller invokes sendMessage(msgs)
ApiSendMessage(msgs) ==
    /\ nextReq < MaxSends
    /\ pending' = pending \cup
           {[id |-> nextReq, messages |-> msgs,
             request |-> sendMessageRequest(backendUrl, msgs)]}
    /\ nextReq' = nextReq + 1
    /\ UNCHANGED << messages, inputText, isTyping, isListening, isSpeaking,
                    apiError, connectionStatus, isVoiceActive, mounted,
                    recognition, synthesis, health, now, environment,
                    backendUrl, lastCall, spoken, moodResult,
                    settingsVars >>

\* the promise of a sendMessage call settles: at once when the call threw
\* before fetch, else when its fetch settles
ApiSettle(call, outcome) ==
    /\ call \in pending
    /\ (call.request.kind = "throw") <=> (outcome = NoFetch)
    /\ lastCall' = [id |-> call.id, messages |-> call.messages,
                    request |-> call.request, outcome |-> outcome,
                    result |-> CallResult(call, outcome)]
    /\ pending' = pending \ {call}
    /\ UNCHANGED << messages, inputText, isTyping, isListening, isSpeaking,
                    apiError, connectionStatus, isVoiceActive, mounted,
                    recognition, synthesis, health, now, environment,
                    backendUrl, nextReq, spoken, moodResult,
                    settingsVars >>

NextApi ==
    \/ \E msgs \in ApiMessageLists : ApiSendMessage(msgs)
    \/ \E call \in pending, outcome \in ChatOutcomes \cup {NoFetch} :
           ApiSettle(call, outcome)

SpecApi == InitApi /\ [][NextApi]_vars

\* The API client's base URL: construction in every environment,
\* setBackendUrl, and the requests made before and after it
SetUrls == {"https://staging.example", "http://10.0.0.5:3001"}

UrlMessageLists ==
    { << [role |-> "user", content |-> "hello"] >>,
      << [role |-> "system", content |-> getSystemPrompt],
         [role |-> "user", content |-> "first"],
         [role |-> "assistant", content |-> "reply"] >> }

InitUrl == InitWith(Environments, {"idle"}, {TRUE})

\* setBackendUrl(url)
ApiSetBackendUrl(url) ==
    /\ url # backendUrl
    /\ backendUrl' = url
    /\ UNCHANGED << messages, inputText, isTyping, isListening, isSpeaking,
                    apiError, connectionStatus, isVoiceActive, mounted,
                    recognition, synthesis, health, now, environment, pending,
                    nextReq, lastCall, spoken, moodResult, settingsVars >>

\* a caller invokes checkHealth()
ApiCheckHealth ==
    /\ nextReq < MaxSends
    /\ pending' = pending \cup
           {[id |-> nextReq, messages |-> << >>,
             request |-> checkHealthRequest(backendUrl)]}
    /\ nextReq' = nextReq + 1
    /\ UNCHANGED << messages, inputText, isTyping, isListening, isSpeaking,
                    apiError, connectionStatus, isVoiceActive, mounted,
                    recognition, synthesis, health, now, environment,
                    backendUrl, lastCall, spoken, moodResult, settingsVars >>

\* the promise of a checkHealth call settles
ApiHealthSettle(call, outcome) ==
    /\ call \in pending
    /\ call.request.kind = "fetch"
    /\ call.request.method = "GET"
    /\ lastCall' = [id |-> call.id, messages |-> call.messages,
                    request |-> call.request, outcome |-> outcome,
                    result |-> checkHealth(outcome)]
    /\ pending' = pending \ {call}
    /\ UNCHANGED << messages, inputText, isTyping, isListening, isSpeaking,
                    apiError, connectionStatus, isVoiceActive, mounted,
                    recognition, synthesis, health, now, environment,
                    backendUrl, nextReq, spoken, moodResult, settingsVars >>

ChatCalls ==
    {call \in pending :
        call.request.kind = "fetch" => call.request.method = "POST"}

NextUrl ==
    \/ \E url \in SetUrls : ApiSetBackendUrl(url)
    \/ \E msgs \in UrlMessageLists : ApiSendMessage(msgs)
    \/ ApiCheckHealth
    \/ \E call \in ChatCalls, outcome \in SmallChatOutcomes \cup {NoFetch} :
           ApiSettle(call, outcome)
    \/ \E call \in pending :
           ApiHealthSettle(call, FetchResponse(200, "OK", Json(HealthDeclared)))

SpecUrl == InitUrl /\ [][NextUrl]_vars

\* detectMood applied to what is in the input box
MoodFragments == {"so TIRED", "don't ", "Understand", "good", " hel", "p"}

InitMood == InitWith(WidgetEnvironments, {"idle"}, {TRUE})

DetectMoodCall ==
    /\ moodResult' = [text |-> inputText, mood |-> detectMood(inputText)]
    /\ UNCHANGED << messages, inputText, isTyping, isListening, isSpeaking,
                    apiError, connectionStatus, isVoiceActive, mounted,
                    recognition, synthesis, health, now, environment,
                    backendUrl, pending, nextReq, lastCall, spoken,
                    settingsVars >>

NextMood ==
    \/ \E fragment \in MoodFragments :
           /\ moodResult = NoMood
           /\ Len(inputText) + Len(fragment) <= MaxTextLen
           /\ ChangeInput(inputText \o fragment)
    \/ ChangeInput("")
    \/ DetectMoodCall

SpecMood == InitMood /\ [][NextMood]_vars

\* The voice settings: the dialog's controls, the browser's voice list, and
\* page loads
VoiceLists ==
    { << >>, << "Alex" >>, << "Alex", "Microsoft Zira" >>,
      << "Alex", "Daniel", "Samantha" >> }

SliderValues == {"0.5", "1", "1.1", "1.5"}

\* the item before the first page load: absent, or as an earlier visit left it
StoredItems ==
    {Null, Str("{\"selectedVoice\":2,\"pitch\":0.5,\"rate\":1.5}")}

InitSettings ==
    /\ InitWidget(WidgetEnvironments, {"idle"}, {TRUE})
    /\ localStorage \in StoredItems
    /\ browserVoices \in VoiceLists
    /\ voiceSettings = initialVoiceSettings(localStorage)
    /\ availableVoices = << >>
    /\ effectsDue = TRUE

NextSettings ==
    \/ \E index \in 0..2 : SelectVoice(index)
    \/ \E value \in SliderValues : ChangePitch(value)
    \/ \E value \in SliderValues : ChangeRate(value)
    \/ ResetToDefaults
    \/ \E voices \in VoiceLists : VoicesChanged(voices)
    \/ \E voices \in VoiceLists : Reload(voices)
    \/ MountEffects

SpecSettings == InitSettings /\ [][NextSettings]_vars

-----------------------------------------------------------------------------
(* Properties *)

UserMessages == {i \in 1..Len(messages) : messages[i].sender = "user"}

CaptainMessages == {i \in 1..Len(messages) : messages[i].sender = "captain"}

IsPending(id) == \E call \in pending : call.id = id

\* a sendMessage call settled in this step
Settled == lastCall' # lastCall

LastMessage == messages[Len(messages)]

MsgCannotConnect ==
    "Cannot connect to backend server. Please ensure the backend service is running."

\* C1: every send with non-blank input appends one user message and, once its
\* backend call settles, one captain message, and every backend call does
\* settle into the widget: no call stays pending and isTyping does not stay
\* true
C1_SendCompletes ==
    /\ [](/\ Cardinality(UserMessages) = nextReq
          /\ Cardinality(CaptainMessages) = 1 + nextReq - Cardinality(pending))
    /\ \A id \in 0..(MaxSends - 1) : IsPending(id) ~> ~IsPending(id)
    /\ isTyping ~> ~isTyping

\* C2: a step in which the backend call of a send rejects appends one captain
\* message with the fallback text and mood neutral, sets apiError to the
\* error's message, or to the fixed text when the value thrown is not an
\* Error, clears isTyping, speaks the fallback text, and keeps every message
\* already in the list, the user's among them
C2_RejectedSend ==
    [][(Settled /\ lastCall'.result.kind = "reject") =>
          LET error == lastCall'.result.error
              reply == messages'[Len(messages')]
          IN  /\ Len(messages') = Len(messages) + 1
              /\ SubSeq(messages', 1, Len(messages)) = messages
              /\ messages[Len(lastCall'.messages) - 1].sender = "user"
              /\ reply.sender = "captain"
              /\ reply.text = FallbackResponse
              /\ reply.mood = "neutral"
              /\ apiError' = IF error.isError THEN Str(error.message)
                             ELSE Str("Failed to get response from AI")
              /\ isTyping' = FALSE
              /\ spoken' = Append(spoken, FallbackResponse)]_vars

C2_Witness ==
    /\ lastCall # NoCall
    /\ lastCall.result.kind = "reject"
    /\ lastCall.result.error.isError
    /\ LastMessage.text = FallbackResponse
    /\ apiError = Str(MsgCannotConnect)
    /\ spoken # << >>

\* C3: a step in which the backend call of a send resolves appends one captain
\* message whose text is the response string of the backend's reply and whose
\* mood is detectMood of the text of the user message of that same send, and
\* speaks that same text
C3_ResolvedSend ==
    [][(Settled /\ lastCall'.result.kind = "resolve") =>
          LET sent == messages[Len(lastCall'.messages) - 1]
              reply == messages'[Len(messages')]
              backendText == Get(lastCall'.outcome.body.value, "response").v
          IN  /\ Len(messages') = Len(messages) + 1
              /\ sent.sender = "user"
              /\ reply.sender = "captain"
              /\ reply.text = backendText
              /\ reply.mood = detectMood(sent.text)
              /\ spoken' = Append(spoken, backendText)]_vars

\* a reply whose own text reads happy, to a send that reads confused, settled
\* after a later send was made
C3_Witness ==
    /\ lastCall # NoCall
    /\ lastCall.result.kind = "resolve"
    /\ lastCall.id = 0
    /\ nextReq = 2
    /\ LastMessage.sender = "captain"
    /\ LastMessage.mood = "confused"
    /\ detectMood(LastMessage.text) = "happy"

ContainsKeyword(text, keywords) ==
    \E word \in keywords :
        \E i \in 1..(Len(text) - Len(word) + 1) :
            \A k \in 1..Len(word) :
                \/ CharAt(text, i + k - 1) = CharAt(word, k)
                \/ \E n \in 1..26 :
                       /\ CharAt(word, k) = CharAt(LowerLetters, n)
                       /\ CharAt(text, i + k - 1) = CharAt(UpperLetters, n)

TiredKeywords == {"tired", "exhausted", "sleepy", "bored", "overwhelmed"}

ConfusedKeywords ==
    {"confused", "don't understand", "help", "stuck", "hard", "difficult"}

HappyKeywords == {"great", "awesome", "got it", "understand", "thanks", "good"}

\* C4: detectMood answers every text with one of the four labels, by priority:
\* tired if a tired keyword occurs in any letter case, else confused if a
\* confused keyword occurs, else happy if a happy keyword occurs, else neutral
C4_MoodPriority ==
    moodResult # NoMood =>
        LET text == moodResult.text
        IN  /\ moodResult.mood \in {"tired", "confused", "happy", "neutral"}
            /\ moodResult.mood =
                   IF ContainsKeyword(text, TiredKeywords) THEN "tired"
                   ELSE IF ContainsKeyword(text, ConfusedKeywords) THEN "confused"
                   ELSE IF ContainsKeyword(text, HappyKeywords) THEN "happy"
                   ELSE "neutral"

C4_Witness ==
    /\ moodResult # NoMood
    /\ moodResult.text = "don't Understand"
    /\ moodResult.mood = "confused"

\* C5: whenever fetch rejects with a transport error, of whichever browser,
\* sendMessage rejects with the cannot-connect message
C5_TransportTranslated ==
    (/\ lastCall # NoCall
     /\ lastCall.outcome.kind = "rejected"
     /\ lastCall.outcome.error \in TransportErrors)
        => lastCall.result = Reject(ErrorOf("Error", MsgCannotConnect))

Decimal(status) ==
    CASE status = 404 -> "404"
      [] status = 500 -> "500"
      [] status = 503 -> "503"

HttpLine(response) ==
    "HTTP " \o Decimal(response.status) \o ": " \o response.statusText

HasErrorField(response) ==
    response.body.parses /\ "error" \in DOMAIN response.body.value.v

NonOkMessage(response, detail) ==
    CASE response.status = 404 ->
             "Backend service not found. Please check if the server is running."
      [] response.status = 500 -> "Server error: " \o detail
      [] OTHER -> "Backend request failed: " \o detail

NonOkSettled ==
    /\ lastCall # NoCall
    /\ lastCall.outcome.kind = "response"
    /\ lastCall.outcome.status \notin 200..299

OkSettled ==
    /\ lastCall # NoCall
    /\ lastCall.outcome.kind = "response"
    /\ lastCall.outcome.status \in 200..299

\* C7: sendMessage resolves only for an ok reply with a non-empty response
\* string, and with that string; an ok reply whose response field is missing
\* or empty makes it reject with the invalid-response message; no captain
\* message after the greeting has empty text
C7_NonEmptyResponse ==
    /\ (lastCall # NoCall /\ lastCall.result.kind = "resolve") =>
           /\ OkSettled
           /\ lastCall.outcome.body.parses
           /\ "response" \in DOMAIN lastCall.outcome.body.value.v
           /\ lastCall.outcome.body.value.v.response.t = "string"
           /\ lastCall.outcome.body.value.v.response.v # ""
           /\ lastCall.result.value = lastCall.outcome.body.value.v.response.v
    /\ (/\ OkSettled
        /\ lastCall.outcome.body.parses
        /\ \/ "response" \notin DOMAIN lastCall.outcome.body.value.v
           \/ lastCall.outcome.body.value.v.response = Str("")) =>
           lastCall.result = Reject(ErrorOf("Error",
               "Invalid response from backend: missing response text"))
    /\ \A i \in CaptainMessages : messages[i].text # ""

C7_Witness ==
    /\ OkSettled
    /\ lastCall.outcome.body.parses
    /\ Get(lastCall.outcome.body.value, "response") = Str("")
    /\ lastCall.result.kind = "reject"
    /\ LastMessage.text = FallbackResponse

\* C8: a call whose last message is not from the user rejects with "Latest
\* message must be from user" and no fetch is made for it; a call whose last
\* message is from the user makes a fetch whose body is exactly the object
\* holding that message's content
C8_LatestMessageOnly ==
    /\ \A call \in pending :
           Len(call.messages) > 0 =>
               LET latest == call.messages[Len(call.messages)]
               IN  IF latest.role # "user"
                   THEN call.request.kind = "throw"
                   ELSE /\ call.request.kind = "fetch"
                        /\ call.request.body =
                               [t |-> "object",
                                v |-> [message |-> [t |-> "string",
                                                    v |-> latest.content]]]
    /\ (lastCall # NoCall /\ Len(lastCall.messages) > 0) =>
           LET latest == lastCall.messages[Len(lastCall.messages)]
           IN  IF latest.role # "user"
               THEN /\ lastCall.outcome = NoFetch
                    /\ lastCall.result = Reject(ErrorOf("Error",
                           "Latest message must be from user"))
               ELSE lastCall.outcome # NoFetch

C8_Witness ==
    /\ lastCall # NoCall
    /\ Len(lastCall.messages) = 3
    /\ lastCall.messages[3].role = "assistant"
    /\ lastCall.result.kind = "reject"
    /\ \E call \in pending :
           /\ Len(call.messages) = 4
           /\ call.request.kind = "fetch"

HealthAnsweredOk ==
    /\ health.outcome.kind = "response"
    /\ health.outcome.status \in 200..299
    /\ health.outcome.body.parses

\* C9: connectionStatus is connecting until the mount-time health check
\* settles; from then on it is connected when the health endpoint answered ok
\* with a parseable body and error otherwise, and no later step changes it;
\* checkHealth resolves in every case, with null on failure
C9_ConnectionStatus ==
    /\ [](IF health.state = "pending"
          THEN connectionStatus = "connecting"
          ELSE /\ health.result.kind = "resolve"
               /\ ~HealthAnsweredOk => health.result.value = Null
               /\ connectionStatus =
                      IF HealthAnsweredOk THEN "connected" ELSE "error")
    /\ [][connectionStatus # "connecting" =>
              connectionStatus' = connectionStatus]_vars

\* a send fails after the health check reported connected
C9_Witness ==
    /\ health.state = "settled"
    /\ HealthAnsweredOk
    /\ connectionStatus = "connected"
    /\ lastCall # NoCall
    /\ lastCall.result.kind = "reject"

\* C10: every step in which a recognition session finishes (result, error or
\* end) leaves isListening and isVoiceActive false, and where recognition is
\* available every activation of voice input is followed by a state in which
\* both are false
C10_VoiceDeactivates ==
    /\ [][(recognition' # recognition /\ recognition' \in {"ending", "idle"})
              => (~isListening' /\ ~isVoiceActive')]_vars
    /\ (recognition # "none" /\ isVoiceActive)
           ~> (~isVoiceActive /\ ~isListening)

\* C11: isSpeaking is true exactly while an utterance is being spoken, also
\* after speakText has replaced a playing utterance by a new one and the
\* replaced utterance's end or error callback arrives
C11_SpeakingWhileSpoken == isSpeaking <=> synthesis.speaking

\* C12: once the effects of a render have run, the stored item is the text of
\* the current settings and reads back as them; a freshly initialised
\* component has the settings the stored item reads back as, or the defaults
\* (0, 1.1, 0.9) when no item is stored
C12_SettingsRoundTrip ==
    /\ ~effectsDue =>
           /\ localStorage.t = "string"
           /\ JSONparse(localStorage.v) = voiceSettings
           /\ localStorage.v =
                  "{\"selectedVoice\":" \o TenthsToString(voiceSettings.selectedVoice)
                      \o ",\"pitch\":" \o TenthsToString(voiceSettings.pitch)
                      \o ",\"rate\":" \o TenthsToString(voiceSettings.rate) \o "}"
    /\ effectsDue =>
           IF localStorage = Null
           THEN voiceSettings = [selectedVoice |-> 0, pitch |-> 11, rate |-> 9]
           ELSE /\ voiceSettings.selectedVoice = JSONparse(localStorage.v).selectedVoice
                /\ voiceSettings.pitch = JSONparse(localStorage.v).pitch
                /\ voiceSettings.rate = JSONparse(localStorage.v).rate

\* a component initialised from what an earlier one stored after changes
C12_Witness ==
    /\ effectsDue
    /\ localStorage = Str("{\"selectedVoice\":1,\"pitch\":1.5,\"rate\":0.5}")
    /\ voiceSettings = [selectedVoice |-> 10, pitch |-> 15, rate |-> 5]

\* the base URL the claim gives for an environment, an empty VITE_BACKEND_URL
\* counting as not set
ResolvedUrl(env) ==
    LET set == env.VITE_BACKEND_URL.t = "string" /\ env.VITE_BACKEND_URL.v # ""
    IN  CASE ~env.hasWindow /\ set -> env.VITE_BACKEND_URL.v
          [] ~env.hasWindow /\ ~set -> "http://localhost:3001"
          [] env.hasWindow /\ env.hostname \in {"localhost", "127.0.0.1"} ->
                 "http://localhost:3001"
          [] env.hasWindow /\ env.hostname \notin {"localhost", "127.0.0.1"} /\ set ->
                 env.VITE_BACKEND_URL.v
          [] OTHER -> env.protocol \o "//captain-focus-backend.onrender.com"

\* C13: until setBackendUrl is called the base URL is the one resolved from
\* the environment at construction; setBackendUrl(u) makes getBackendUrl
\* return u; and every sendMessage and checkHealth request is addressed to the
\* base URL current when the call is made
C13_BackendUrl ==
    /\ [](backendUrl \notin SetUrls => backendUrl = ResolvedUrl(environment))
    /\ [][\A url \in SetUrls : ApiSetBackendUrl(url) => getBackendUrl' = url]_vars
    /\ [][\A call \in pending' \ pending :
             call.request.kind = "fetch" =>
                 call.request.url \in {backendUrl \o "/api/chat",
                                       backendUrl \o "/api/health"}]_vars

\* requests to the old and to the new base URL, both outstanding
C13_Witness ==
    /\ environment.hasWindow
    /\ environment.hostname = "127.0.0.1"
    /\ environment.VITE_BACKEND_URL = Str("https://api.example")
    /\ backendUrl = "https://staging.example"
    /\ \E call \in pending :
           /\ call.request.kind = "fetch"
           /\ call.request.url = "http://localhost:3001/api/chat"
    /\ \E call \in pending :
           /\ call.request.kind = "fetch"
           /\ call.request.url = "https://staging.example/api/health"

\* C14: the first message is always the captain's greeting with id '1' and
\* mood happy, and every step keeps each message already in the list,
\* unchanged and in its position
C14_AppendOnly ==
    /\ [](/\ Len(messages) >= 1
          /\ messages[1].id = "1"
          /\ messages[1].sender = "captain"
          /\ messages[1].mood = "happy"
          /\ messages[1].text = GreetingText)
    /\ [][/\ Len(messages') >= Len(messages)
          /\ \A i \in 1..Len(messages) : messages'[i] = messages[i]]_vars

\* a reply and a fallback appended, with a recognition session under way
C14_Witness ==
    /\ Len(messages) = 5
    /\ \E i \in 1..5 : messages[i].text = FallbackResponse
    /\ \E i \in 2..5 : messages[i].sender = "captain"
                       /\ messages[i].text # FallbackResponse
    /\ isListening

\* C15: the message list alternates captain, user, captain, user, ... from
\* the greeting on, so no two user messages are adjacent
C15_Alternation ==
    \A i \in 1..Len(messages) :
        messages[i].sender = IF i % 2 = 1 THEN "captain" ELSE "user"

\* C16: at most one backend chat request is outstanding at any time, and
\* isTyping is true exactly while one is
C16_OneOutstanding ==
    /\ Cardinality(pending) <= 1
    /\ isTyping <=> pending # {}

\* C17: handleSendMessage with an input that is empty or all whitespace
\* changes nothing: no message, no request, inputText, isTyping and apiError
\* as they were; with any other input it appends the input as typed, clears
\* inputText, resets apiError to null and issues a request carrying the input
\* as typed
C17_SendFrame ==
    [][(PressEnter \/ ClickSend) =>
          IF \A i \in 1..Len(inputText) : CharAt(inputText, i) \in {" ", "\n", "\t"}
          THEN /\ messages' = messages
               /\ pending' = pending
               /\ nextReq' = nextReq
               /\ inputText' = inputText
               /\ isTyping' = isTyping
               /\ apiError' = apiError
          ELSE /\ Len(messages') = Len(messages) + 1
               /\ messages'[Len(messages')].sender = "user"
               /\ messages'[Len(messages')].text = inputText
               /\ inputText' = ""
               /\ apiError' = Null
               /\ isTyping' = TRUE
               /\ \E call \in pending' :
                      /\ call \notin pending
                      /\ pending' = pending \cup {call}
                      /\ call.request.kind = "fetch"
                      /\ call.request.body =
                             [t |-> "object",
                              v |-> [message |-> [t |-> "string", v |-> inputText]]]]_vars

\* text with blanks around it was sent as typed, the send failed, and a blank
\* input stands in the box under the banner
C17_Witness ==
    /\ Len(messages) = 3
    /\ messages[2].text = " so TIRED, thanks "
    /\ lastCall # NoCall
    /\ lastCall.request.body.v.message.v = " so TIRED, thanks "
    /\ Truthy(apiError)
    /\ inputText = "   "

\* C18: the ids of the messages in the list are pairwise distinct
C18_DistinctIds ==
    \A i, j \in 1..Len(messages) : i # j => messages[i].id # messages[j].id

\* C19: recognition.start() is never called on a session that has been
\* started and has not ended: the call throws exactly then, and the error
\* thrown in the effect unmounts the widget
C19_NoStartWhileStarted == mounted

\* C20: isListening and isSpeaking are never both true
C20_NeverListenAndSpeak == ~(isListening /\ isSpeaking)

\* a parsed health body of the declared BackendHealthResponse shape: status,
\* service, message and timestamp strings and an environment of nodeEnv,
\* nodeVersion and port, and no other field
DeclaredHealthShape(h) ==
    /\ h.t = "object"
    /\ DOMAIN h.v = {"status", "service", "message", "timestamp", "environment"}
    /\ \A k \in {"status", "service", "message", "timestamp"} : h.v[k].t = "string"
    /\ h.v.environment.t = "object"
    /\ DOMAIN h.v.environment.v = {"nodeEnv", "nodeVersion", "port"}
    /\ h.v.environment.v.nodeEnv.t = "string"
    /\ h.v.environment.v.nodeVersion.t = "string"
    /\ h.v.environment.v.port.t = "number"

\* C21: every step in which the mount-time health check settles with an ok
\* reply of the declared BackendHealthResponse shape sets connectionStatus to
\* connected and leaves apiError as it was
C21_HealthyNoBanner ==
    [][(/\ health.state = "pending"
        /\ health'.state = "settled"
        /\ HealthAnsweredOk'
        /\ DeclaredHealthShape(health'.outcome.body.value))
       => /\ connectionStatus' = "connected"
          /\ apiError' = apiError]_vars

====
